---------------------------- MODULE Spec2Model ----------------------------
(***************************************************************************)
(* Model of add_aiplugins_to_xcode.py: one run of add_files_to_project,    *)
(* which reads project.pbxproj, discovers Swift and resource files,        *)
(* synthesizes PBXFileReference / PBXBuildFile lines, patches four regions *)
(* of the text with re.search + str.replace and writes the text back.      *)
(*                                                                         *)
(* Text is a sequence of tokens.  "\n" and "\t" are one-character tokens;  *)
(* every other token stands for a fixed multi-character piece of text (a   *)
(* marker literal, an existing line of the descriptor, or a line the run   *)
(* synthesized).  Multi-character tokens are atomic: the texts of two      *)
(* different tokens are taken not to overlap.  A token is a record whose   *)
(* field k names its kind; synthesized lines carry their identifier (id),  *)
(* the identifier they refer to (ref), the file's base name and its path.  *)
(***************************************************************************)
EXTENDS Integers, Sequences, FiniteSets, TLC

VARIABLES
    pc,               \* position of the run inside the script
    disk,             \* text of project.pbxproj on disk
    orig,             \* history: text of project.pbxproj when the run began
    srcDir,           \* filesystem under sources/AIPlugins
    resDir,           \* filesystem under Resources/AIPlugins
    content,          \* local `content` of add_files_to_project
    swift_files,      \* local `swift_files`
    resource_files,   \* local `resource_files`
    wm_uuid,          \* local `wm_uuid`
    wm_build_uuid,    \* local `wm_build_uuid`
    file_references,  \* local `file_references`
    build_file_refs,  \* local `build_file_refs`
    out,              \* lines printed so far (tags)
    hist,             \* history: the steps executed so far, in order
    writes,           \* history: number of calls of write_pbxproj
    raised,           \* TRUE once an exception was raised inside the run
    exitStatus        \* exit status of the process, -1 while it runs

vars == <<pc, disk, orig, srcDir, resDir, content, swift_files, resource_files,
          wm_uuid, wm_build_uuid, file_references, build_file_refs, out, hist,
          writes, raised, exitStatus>>

\* Largest number of files below sources/AIPlugins that Init considers.
MaxSwift == 2

----------------------------------------------------------------------------
(* Tokens *)

Lit(s) == [k |-> s]

NL == Lit("\\n")
TAB == Lit("\\t")

\* Marker literals the regular expressions of add_files_to_project look for.
BeginRef == Lit("/* Begin PBXFileReference section */")
EndRef == Lit("/* End PBXFileReference section */")
BeginBuild == Lit("/* Begin PBXBuildFile section */")
EndBuild == Lit("/* End PBXBuildFile section */")
GroupHdr == Lit("080E96DDFE201D6D7F000001 /* Sources */ = {")
ChildrenOpen == Lit("children = (")
PhaseHdr == Lit("8D11072C0486CEB800E47090 /* Sources */ = {")
FilesOpen == Lit("files = (")
Close == Lit(");")

\* What a multi-character token becomes when text is inserted between its
\* characters.
Garbled == Lit("garbled")

\* An existing line of the descriptor, opaque to the script.
Old(n) == [k |-> "old", id |-> n]

IsOneChar(tok) == tok = NL \/ tok = TAB

----------------------------------------------------------------------------
(* str and re primitives on token sequences *)

\* First index i >= from at which pat occurs in s, 0 when there is none.
IndexOf(s, pat, from) ==
    LET hits == {i \in from..(Len(s) - Len(pat) + 1) :
                    SubSeq(s, i, i + Len(pat) - 1) = pat}
    IN  IF hits = {} THEN 0 ELSE CHOOSE i \in hits : \A j \in hits : i <= j

RECURSIVE Concat(_)
Concat(ss) == IF ss = <<>> THEN <<>> ELSE Head(ss) \o Concat(Tail(ss))

\* str.replace(old, new) with old = '': new goes before every character
\* and at the end, so every multi-character token is broken up.
ReplaceEmpty(s, new) ==
    Concat([i \in 1..Len(s) |->
              new \o <<IF IsOneChar(s[i]) THEN s[i] ELSE Garbled>>]) \o new

RECURSIVE ReplaceFrom(_, _, _, _)
ReplaceFrom(s, old, new, i) ==
    IF i > Len(s) THEN <<>>
    ELSE IF i + Len(old) - 1 <= Len(s) /\ SubSeq(s, i, i + Len(old) - 1) = old
         THEN new \o ReplaceFrom(s, old, new, i + Len(old))
         ELSE <<s[i]>> \o ReplaceFrom(s, old, new, i + 1)

\* str.replace(old, new): every non-overlapping occurrence, left to right.
StrReplace(s, old, new) ==
    IF old = <<>> THEN ReplaceEmpty(s, new) ELSE ReplaceFrom(s, old, new, 1)

\* '\n'.join(lines), each line a token sequence.
RECURSIVE JoinNL(_)
JoinNL(lines) ==
    IF lines = <<>> THEN <<>>
    ELSE IF Len(lines) = 1 THEN lines[1]
    ELSE lines[1] \o <<NL>> \o JoinNL(Tail(lines))

\* `a in b` on file names (words of a name are atomic).
IsSubstr(a, b) == IndexOf(b, a, 1) # 0

\* name.endswith(ext), ext one of the suffix words.
EndsWith(name, ext) == name # <<>> /\ name[Len(name)] = ext

----------------------------------------------------------------------------
(* The two directory trees and os.walk *)

Dir(p, par, nm) == [path |-> p, parent |-> par, name |-> nm, isDir |-> TRUE]
File(p, par, nm) == [path |-> p, parent |-> par, name |-> nm, isDir |-> FALSE]

\* Entries that may exist below sources/AIPlugins, by relative path.
SrcUniverse ==
    { Dir("Core", ".", <<"Core">>),
      File("Core/Manager.swift", "Core", <<"Manager", ".swift">>),
      File("Core/Util.swift", "Core", <<"Util", ".swift">>),
      File("Notes.md", ".", <<"Notes", ".md">>),
      Dir("UI", ".", <<"UI">>),
      File("UI/Util.swift", "UI", <<"Util", ".swift">>) }

\* Entries that may exist below Resources/AIPlugins, by relative path.
ResUniverse ==
    { File("config.json", ".", <<"config", ".json">>),
      Dir("en.lproj", ".", <<"en", ".lproj">>),
      File("en.lproj/Main.strings", "en.lproj", <<"Main", ".strings">>),
      Dir("en.lproj/sub", "en.lproj", <<"sub">>),
      File("en.lproj/sub/x.json", "en.lproj/sub", <<"x", ".json">>),
      File("notes.txt", ".", <<"notes", ".txt">>),
      Dir("scripts", ".", <<"scripts">>),
      File("scripts/run.py", "scripts", <<"run", ".py">>) }

\* All relative paths above in the order of Python's string comparison.
PathOrder ==
    << "Core", "Core/Manager.swift", "Core/Util.swift", "Notes.md", "UI",
       "UI/Util.swift", "config.json", "en.lproj", "en.lproj/Main.strings",
       "en.lproj/sub", "en.lproj/sub/x.json", "notes.txt", "scripts",
       "scripts/run.py" >>

Rank(p) == CHOOSE i \in 1..Len(PathOrder) : PathOrder[i] = p

Missing == [exists |-> FALSE, entries |-> {}]
Tree(es) == [exists |-> TRUE, entries |-> es]

\* A set of entries is a tree when every entry's parent directory is in it.
Closed(es) ==
    \A e \in es : e.parent = "." \/ \E d \in es : d.isDir /\ d.path = e.parent

\* os.walk(directory): the directories it yields, as relative paths.  The
\* callers never prune `dirs`, so every directory below the top is yielded;
\* a top that cannot be listed yields nothing (onerror is None).
WalkRoots(d) ==
    IF d.exists THEN {"."} \cup {e.path : e \in {x \in d.entries : x.isDir}}
    ELSE {}

\* The `files` os.walk yields together with `root`.
WalkFiles(d, root) == {e \in d.entries : ~e.isDir /\ e.parent = root}

\* The name of the directory `root`; the top itself is .../AIPlugins.
RootName(d, root) ==
    IF root = "." THEN <<"AIPlugins">>
    ELSE (CHOOSE e \in d.entries : e.path = root).name

\* sorted() of a set of relative paths.
SortedPaths(S) == SelectSeq(PathOrder, LAMBDA p : p \in S)

\* sorted() of a set of (rel_path, kind) tuples.
SortedPairs(S) ==
    Concat([i \in 1..Len(PathOrder) |->
              (IF <<PathOrder[i], "file">> \in S
                  THEN << <<PathOrder[i], "file">> >> ELSE <<>>)
              \o (IF <<PathOrder[i], "folder">> \in S
                     THEN << <<PathOrder[i], "folder">> >> ELSE <<>>)])

find_all_swift_files(d) ==
    SortedPaths({e.path : e \in
        {f \in UNION {WalkFiles(d, root) : root \in WalkRoots(d)} :
            EndsWith(f.name, ".swift")}})

extensions == {".lproj", ".strings", ".js", ".py", ".json", ".icns"}

find_all_resource_files(d) ==
    LET bundles == {root \in WalkRoots(d) : EndsWith(RootName(d, root), ".lproj")}
        others == WalkRoots(d) \ bundles
        picked == {f \in UNION {WalkFiles(d, root) : root \in others} :
                      \E ext \in extensions : EndsWith(f.name, ext)}
    IN  SortedPairs({<<root, "folder">> : root \in bundles}
                    \cup {<<f.path, "file">> : f \in picked})

\* os.path.basename of a discovered relative path.
basename(p) == (CHOOSE e \in SrcUniverse : e.path = p).name

----------------------------------------------------------------------------
(* Descriptors the run may find on disk *)

Variants == {"absent", "empty", "blank", "one"}

\* A begin/end delimited section: absent, with nothing between the markers,
\* or with one existing line.
Section(begin, endm, v, n) ==
    IF v = "absent" THEN <<>>
    ELSE IF v = "empty" THEN <<begin, NL, endm, NL>>
    ELSE <<begin, NL, TAB, TAB, Old(n), NL, endm, NL>>

\* A record with a parenthesised list: absent, "(" immediately followed by
\* ");", the list as Xcode writes an empty one ("(" newline tabs ");"), or
\* a list with one existing entry.
ListRecord(hdr, open, v, n) ==
    IF v = "absent" THEN <<>>
    ELSE <<TAB, TAB, hdr, NL, TAB, TAB, TAB, open>>
         \o (IF v = "empty" THEN <<>>
             ELSE IF v = "blank" THEN <<NL, TAB, TAB, TAB>>
             ELSE <<NL, TAB, TAB, TAB, TAB, Old(n), NL, TAB, TAB, TAB>>)
         \o <<Close, NL>>

\* project.pbxproj: the sections in the order Xcode writes them.
Descriptor(b, r, g, p) ==
    <<Lit("// !$*UTF8*$!"), NL>>
    \o Section(BeginBuild, EndBuild, b, 1)
    \o Section(BeginRef, EndRef, r, 2)
    \o ListRecord(GroupHdr, ChildrenOpen, g, 3)
    \o ListRecord(PhaseHdr, FilesOpen, p, 4)

Descriptors ==
    {Descriptor(b, r, g, p) :
        b \in Variants \ {"blank"}, r \in Variants \ {"blank"},
        g \in Variants, p \in Variants}

SrcFiles == {e \in SrcUniverse : ~e.isDir}

\* The files together with the directories that hold them.
WithParents(fs) ==
    fs \cup {d \in SrcUniverse : d.isDir /\ \E f \in fs : f.parent = d.path}

SrcTrees ==
    {Missing} \cup
    {Tree(WithParents(fs)) : fs \in {x \in SUBSET SrcFiles : Cardinality(x) <= MaxSwift}}

ResTrees == {Tree(es) : es \in {x \in SUBSET ResUniverse : Closed(x)}}

\* The resource trees the full run is explored with.
RunResTrees ==
    {Missing, Tree({}),
     Tree({e \in ResUniverse : e.path \in {"en.lproj", "en.lproj/Main.strings",
                                            "config.json"}})}

----------------------------------------------------------------------------
(* Identifier generator and record synthesis *)

\* generate_uuid(): the n-th token drawn in a run.  uuid4 draws 96 random
\* bits; two draws are taken to differ.
generate_uuid(n) == n

WMName == <<"AIPluginWindow", "Manager", ".swift">>

\* "\t\t{uuid} /* {name} */ = {isa = PBXFileReference; ... path = ...; };"
FileRefLine(uuid, nm, p) ==
    <<TAB, TAB, [k |-> "PBXFileReference", id |-> uuid, name |-> nm, path |-> p]>>

\* "\t\t{uuid} /* {name} in Sources */ = {isa = PBXBuildFile; fileRef = {ref} /* {name} */; };"
BuildFileLine(uuid, fileRef, nm) ==
    <<TAB, TAB, [k |-> "PBXBuildFile", id |-> uuid, ref |-> fileRef, name |-> nm]>>

\* "\n\t\t\t\t{uuid} /* {name} */,"
ChildEntry(uuid, nm) ==
    <<NL, TAB, TAB, TAB, TAB, [k |-> "child", id |-> uuid, name |-> nm]>>

\* "\n\t\t\t\t{uuid} /* {name} in Sources */,"
PhaseEntry(uuid, nm) ==
    <<NL, TAB, TAB, TAB, TAB, [k |-> "file", id |-> uuid, name |-> nm]>>

----------------------------------------------------------------------------
(* The four re.search calls *)

NoMatch == [found |-> FALSE, start |-> 0, stop |-> 0, g |-> <<>>]

\* re.search(r'(<begin>.*?)(\n<end>)', c, re.DOTALL): group(1) runs from the
\* first begin marker up to the first "\n<end>" after it.
SectionMatch(c, begin, endm) ==
    LET b == IndexOf(c, <<begin>>, 1)
        e == IF b = 0 THEN 0 ELSE IndexOf(c, <<NL, endm>>, b + 1)
    IN  IF e = 0 THEN NoMatch
        ELSE [found |-> TRUE, start |-> b, stop |-> e - 1, g |-> SubSeq(c, b, e - 1)]

\* re.search(r'(<hdr>.*?<open>)(.*?)(\);)', c, re.DOTALL): group(2) is what
\* stands between the first <open> after the first <hdr> and the next ");".
ListMatch(c, hdr, open) ==
    LET h == IndexOf(c, <<hdr>>, 1)
        o == IF h = 0 THEN 0 ELSE IndexOf(c, <<open>>, h + 1)
        z == IF o = 0 THEN 0 ELSE IndexOf(c, <<Close>>, o + 1)
    IN  IF z = 0 THEN NoMatch
        ELSE [found |-> TRUE, start |-> o + 1, stop |-> z - 1, g |-> SubSeq(c, o + 1, z - 1)]

ref_section_match(c) == SectionMatch(c, BeginRef, EndRef)
build_section_match(c) == SectionMatch(c, BeginBuild, EndBuild)
sources_group_match(c) == ListMatch(c, GroupHdr, ChildrenOpen)
sources_phase_match(c) == ListMatch(c, PhaseHdr, FilesOpen)

\* The record token of a synthesized line (the text after the two tabs).
Rec(line) == line[Len(line)]

\* Lines 141-149: for each discovered file, the first line of build_file_refs
\* that contains its base name; the first 24 hex digits of that line are the
\* line's own identifier.
new_files_list(files, refs, wmb) ==
    PhaseEntry(wmb, WMName)
    \o Concat([i \in 1..Len(files) |->
          LET nm == basename(files[i])
              js == {j \in 1..Len(refs) : IsSubstr(nm, Rec(refs[j]).name)}
          IN  IF js = {} THEN <<>>
              ELSE PhaseEntry(Rec(refs[CHOOSE j \in js : \A x \in js : j <= x]).id, nm)])

----------------------------------------------------------------------------
(* The run *)

Init ==
    /\ pc = "read"
    /\ disk \in Descriptors
    /\ orig = disk
    /\ srcDir \in SrcTrees
    /\ resDir \in RunResTrees
    /\ content = <<>>
    /\ swift_files = <<>>
    /\ resource_files = <<>>
    /\ wm_uuid = 0
    /\ wm_build_uuid = 0
    /\ file_references = <<>>
    /\ build_file_refs = <<>>
    /\ out = <<>>
    /\ hist = <<>>
    /\ writes = 0
    /\ raised = FALSE
    /\ exitStatus = -1

\* Lines 61-62: read_pbxproj succeeds.
ReadProject ==
    /\ pc = "read"
    /\ out' = Append(out, "reading")
    /\ content' = disk
    /\ hist' = Append(hist, "read")
    /\ pc' = "scan_swift"
    /\ UNCHANGED <<disk, orig, srcDir, resDir, swift_files, resource_files, wm_uuid,
                   wm_build_uuid, file_references, build_file_refs, writes, raised,
                   exitStatus>>

\* Lines 61-62: open() or read() raises (the file cannot be read or decoded).
ReadProjectFails ==
    /\ pc = "read"
    /\ out' = Append(out, "reading")
    /\ raised' = TRUE
    /\ pc' = "except"
    /\ UNCHANGED <<disk, orig, srcDir, resDir, content, swift_files, resource_files,
                   wm_uuid, wm_build_uuid, file_references, build_file_refs, hist,
                   writes, exitStatus>>

\* Lines 69-71.
ScanSwift ==
    /\ pc = "scan_swift"
    /\ swift_files' = find_all_swift_files(srcDir)
    /\ out' = out \o <<"scanning sources", "found sources">>
    /\ hist' = Append(hist, "scan_swift")
    /\ pc' = "scan_res"
    /\ UNCHANGED <<disk, orig, srcDir, resDir, content, resource_files, wm_uuid,
                   wm_build_uuid, file_references, build_file_refs, writes, raised,
                   exitStatus>>

\* Lines 73-75.
ScanResources ==
    /\ pc = "scan_res"
    /\ resource_files' = find_all_resource_files(resDir)
    /\ out' = out \o <<"scanning resources", "found resources">>
    /\ hist' = Append(hist, "scan_res")
    /\ pc' = "synth"
    /\ UNCHANGED <<disk, orig, srcDir, resDir, content, swift_files, wm_uuid,
                   wm_build_uuid, file_references, build_file_refs, writes, raised,
                   exitStatus>>

\* Lines 77-104: the window manager draws tokens 1 and 2, the i-th discovered
\* file tokens 2i+1 and 2i+2.
Synthesize ==
    /\ pc = "synth"
    /\ wm_uuid' = generate_uuid(1)
    /\ wm_build_uuid' = generate_uuid(2)
    /\ file_references' =
          <<FileRefLine(generate_uuid(1), WMName, "sources/AIPluginWindowManager.swift")>>
          \o [i \in 1..Len(swift_files) |->
                FileRefLine(generate_uuid(2 * i + 1), basename(swift_files[i]),
                            swift_files[i])]
    /\ build_file_refs' =
          <<BuildFileLine(generate_uuid(2), generate_uuid(1), WMName)>>
          \o [i \in 1..Len(swift_files) |->
                BuildFileLine(generate_uuid(2 * i + 2), generate_uuid(2 * i + 1),
                              basename(swift_files[i]))]
    /\ hist' = Append(hist, "synth")
    /\ pc' = "patch_ref"
    /\ UNCHANGED <<disk, orig, srcDir, resDir, content, swift_files, resource_files,
                   out, writes, raised, exitStatus>>

\* Lines 110-114: the text after the PBXFileReference step.
patch_ref_section(c, refs) ==
    LET m == ref_section_match(c)
    IN  IF m.found THEN StrReplace(c, m.g, m.g \o <<NL>> \o JoinNL(refs) \o <<NL>>)
        ELSE c

\* Lines 118-122: the text after the PBXBuildFile step.
patch_build_section(c, refs) ==
    LET m == build_section_match(c)
    IN  IF m.found THEN StrReplace(c, m.g, m.g \o <<NL>> \o JoinNL(refs) \o <<NL>>)
        ELSE c

\* Lines 126-132: the text after the Sources group step.
patch_sources_group(c, wm) ==
    LET m == sources_group_match(c)
    IN  IF m.found THEN StrReplace(c, m.g, m.g \o ChildEntry(wm, WMName))
        ELSE c

\* Lines 136-152: the text after the Sources build phase step.
patch_sources_phase(c, files, refs, wmb) ==
    LET m == sources_phase_match(c)
    IN  IF m.found THEN StrReplace(c, m.g, m.g \o new_files_list(files, refs, wmb))
        ELSE c

\* Lines 107-115.
PatchRefSection ==
    /\ pc = "patch_ref"
    /\ content' = patch_ref_section(content, file_references)
    /\ out' = out \o <<"modifying">>
                  \o (IF ref_section_match(content).found THEN <<"ok file references">>
                      ELSE <<>>)
    /\ hist' = Append(hist, "patch_ref")
    /\ pc' = "patch_build"
    /\ UNCHANGED <<disk, orig, srcDir, resDir, swift_files, resource_files, wm_uuid,
                   wm_build_uuid, file_references, build_file_refs, writes, raised,
                   exitStatus>>

\* Lines 117-123.
PatchBuildSection ==
    /\ pc = "patch_build"
    /\ content' = patch_build_section(content, build_file_refs)
    /\ out' = out \o (IF build_section_match(content).found THEN <<"ok build files">>
                      ELSE <<>>)
    /\ hist' = Append(hist, "patch_build")
    /\ pc' = "patch_group"
    /\ UNCHANGED <<disk, orig, srcDir, resDir, swift_files, resource_files, wm_uuid,
                   wm_build_uuid, file_references, build_file_refs, writes, raised,
                   exitStatus>>

\* PatchSourcesGroup saving the text as soon as it has patched it.
PatchSourcesGroupSavesEarly ==
    /\ pc = "patch_group"
    /\ content' = patch_sources_group(content, wm_uuid)
    /\ disk' = content'
    /\ writes' = writes + 1
    /\ out' = out \o (IF sources_group_match(content).found THEN <<"ok sources group">>
                      ELSE <<>>)
    /\ hist' = Append(hist, "patch_group")
    /\ pc' = "patch_phase"
    /\ UNCHANGED <<orig, srcDir, resDir, swift_files, resource_files, wm_uuid,
                   wm_build_uuid, file_references, build_file_refs, raised, exitStatus>>

\* Lines 125-133.
PatchSourcesGroup ==
    /\ pc = "patch_group"
    /\ content' = patch_sources_group(content, wm_uuid)
    /\ out' = out \o (IF sources_group_match(content).found THEN <<"ok sources group">>
                      ELSE <<>>)
    /\ hist' = Append(hist, "patch_group")
    /\ pc' = "patch_phase"
    /\ UNCHANGED <<disk, orig, srcDir, resDir, swift_files, resource_files, wm_uuid,
                   wm_build_uuid, file_references, build_file_refs, writes, raised,
                   exitStatus>>

\* Lines 135-153.
PatchSourcesPhase ==
    /\ pc = "patch_phase"
    /\ content' = patch_sources_phase(content, swift_files, build_file_refs, wm_build_uuid)
    /\ out' = out \o (IF sources_phase_match(content).found THEN <<"ok build phase">>
                      ELSE <<>>)
    /\ hist' = Append(hist, "patch_phase")
    /\ pc' = "write"
    /\ UNCHANGED <<disk, orig, srcDir, resDir, swift_files, resource_files, wm_uuid,
                   wm_build_uuid, file_references, build_file_refs, writes, raised,
                   exitStatus>>

\* Lines 51-54: what write_pbxproj can leave on disk: the whole text; the
\* old text when open() raises; nothing when open() truncated the file and
\* write() raised.
write_pbxproj(old, c) == {[ok |-> TRUE, text |-> c],
                          [ok |-> FALSE, text |-> old],
                          [ok |-> FALSE, text |-> <<>>]}

\* Lines 155-158.
SaveProject ==
    /\ pc = "write"
    /\ \E w \in write_pbxproj(disk, content) :
          /\ disk' = w.text
          /\ raised' = ~w.ok
          /\ out' = out \o <<"saving">> \o (IF w.ok THEN <<"ok saved">> ELSE <<>>)
          /\ pc' = IF w.ok THEN "summary" ELSE "except"
    /\ writes' = writes + 1
    /\ hist' = Append(hist, "write")
    /\ UNCHANGED <<orig, srcDir, resDir, content, swift_files, resource_files, wm_uuid,
                   wm_build_uuid, file_references, build_file_refs, exitStatus>>

\* Lines 160-163, then the script runs off its end.
Summary ==
    /\ pc = "summary"
    /\ out' = out \o <<"done", "statistics">>
    /\ hist' = Append(hist, "summary")
    /\ exitStatus' = 0
    /\ pc' = "exited"
    /\ UNCHANGED <<disk, orig, srcDir, resDir, content, swift_files, resource_files,
                   wm_uuid, wm_build_uuid, file_references, build_file_refs, writes,
                   raised>>

\* Lines 168-171: the handler prints the error and the traceback and falls
\* through; nothing calls sys.exit, so the interpreter exits with status 0.
HandleException ==
    /\ pc = "except"
    /\ out' = out \o <<"error", "traceback">>
    /\ exitStatus' = 0
    /\ pc' = "exited"
    /\ UNCHANGED <<disk, orig, srcDir, resDir, content, swift_files, resource_files,
                   wm_uuid, wm_build_uuid, file_references, build_file_refs, hist,
                   writes, raised>>

Next ==
    \/ ReadProject
    \/ ReadProjectFails
    \/ ScanSwift
    \/ ScanResources
    \/ Synthesize
    \/ PatchRefSection
    \/ PatchBuildSection
    \/ PatchSourcesGroup
    \/ PatchSourcesPhase
    \/ SaveProject
    \/ Summary
    \/ HandleException

Spec == Init /\ [][Next]_vars

\* A run that starts at line 73 with the earlier steps behind it, over every
\* tree below Resources/AIPlugins.
InitDiscovery ==
    /\ pc = "scan_res"
    /\ disk = Descriptor("one", "one", "one", "one")
    /\ orig = disk
    /\ srcDir = Missing
    /\ resDir \in ResTrees \cup {Missing}
    /\ content = disk
    /\ swift_files = <<>>
    /\ resource_files = <<>>
    /\ wm_uuid = 0
    /\ wm_build_uuid = 0
    /\ file_references = <<>>
    /\ build_file_refs = <<>>
    /\ out = <<"reading", "scanning sources", "found sources">>
    /\ hist = <<"read", "scan_swift">>
    /\ writes = 0
    /\ raised = FALSE
    /\ exitStatus = -1

NextDiscovery == ScanResources

SpecDiscovery == InitDiscovery /\ [][NextDiscovery]_vars

----------------------------------------------------------------------------
(* Reading a descriptor back *)

Range(q) == {q[i] : i \in DOMAIN q}

IsPrefix(a, b) == Len(a) <= Len(b) /\ SubSeq(b, 1, Len(a)) = a

\* Positions of the tokens of kind knd inside the matched span m of text c.
In(c, m, knd) ==
    IF m.found THEN {i \in m.start..m.stop : c[i].k = knd} ELSE {}

DeclRefs(c) == In(c, ref_section_match(c), "PBXFileReference")
RegBuilds(c) == In(c, build_section_match(c), "PBXBuildFile")
GroupChildren(c) == In(c, sources_group_match(c), "child")
PhaseFiles(c) == In(c, sources_phase_match(c), "file")

Ids(c, ps) == {c[i].id : i \in ps}

PatchSteps == {"patch_ref", "patch_build", "patch_group", "patch_phase"}

\* The re.search of a patch step.
StepMatch(step, c) ==
    CASE step = "patch_ref" -> ref_section_match(c)
      [] step = "patch_build" -> build_section_match(c)
      [] step = "patch_group" -> sources_group_match(c)
      [] step = "patch_phase" -> sources_phase_match(c)

StepAfter(step) ==
    CASE step = "patch_ref" -> "patch_build"
      [] step = "patch_build" -> "patch_group"
      [] step = "patch_group" -> "patch_phase"
      [] step = "patch_phase" -> "write"

Warning(step) ==
    CASE step = "patch_ref" -> "warning file references"
      [] step = "patch_build" -> "warning build files"
      [] step = "patch_group" -> "warning sources group"
      [] step = "patch_phase" -> "warning build phase"

Finished == pc = "exited" /\ ~raised

----------------------------------------------------------------------------
(* Claims *)

\* Descriptors in which all four anchors are present and hold nothing.
AllEmpty ==
    {Descriptor("empty", "empty", g, p) : g \in {"empty", "blank"}, p \in {"empty", "blank"}}

\* C1: after a completed run on a descriptor whose four regions are present
\* and empty, with N discovered source files, the written descriptor holds
\* exactly N+1 new FileReference lines in the declaration section, exactly
\* N+1 new BuildFile lines in the registration section, each referring to one
\* of those FileReferences, and exactly N+1 new entries in each of the two
\* membership lists, naming those same identifiers.
C1_EndToEnd ==
    (Finished /\ orig \in AllEmpty) =>
        LET n == Len(swift_files) + 1
        IN  /\ Cardinality(DeclRefs(disk)) = n
            /\ Cardinality(RegBuilds(disk)) = n
            /\ \A i \in RegBuilds(disk) : disk[i].ref \in Ids(disk, DeclRefs(disk))
            /\ Cardinality(GroupChildren(disk)) = n
            /\ Ids(disk, GroupChildren(disk)) = Ids(disk, DeclRefs(disk))
            /\ Cardinality(PhaseFiles(disk)) = n
            /\ Ids(disk, PhaseFiles(disk)) = Ids(disk, RegBuilds(disk))

\* C2: a patch step whose anchor is found changes nothing outside the span
\* it captured: the text before the span and the text after it are the same
\* before and after the step.
C2_OnlyTargetedRegion ==
    [][\A step \in PatchSteps :
          (pc = step /\ StepMatch(step, content).found) =>
              LET m == StepMatch(step, content)
                  tail == Len(content) - m.stop
              IN  /\ Len(content') >= Len(content)
                  /\ SubSeq(content', 1, m.start - 1) = SubSeq(content, 1, m.start - 1)
                  /\ SubSeq(content', Len(content') - tail + 1, Len(content'))
                        = SubSeq(content, m.stop + 1, Len(content))]_vars

\* Descriptors with any combination of anchors, whose lists, where present,
\* hold one existing entry.
AnyAnchors ==
    {Descriptor(b, r, g, p) :
        b \in {"absent", "empty", "one"}, r \in {"absent", "empty", "one"},
        g \in {"absent", "one"}, p \in {"absent", "one"}}

\* C3: after any run, whichever anchors are present, every BuildFile line
\* the run put into the descriptor refers to a FileReference line that is in
\* the descriptor's declaration section.
C3_ReferentialIntegrity ==
    (pc = "exited" /\ orig \in AnyAnchors) =>
        \A i \in DOMAIN disk :
            disk[i].k = "PBXBuildFile" => disk[i].ref \in Ids(disk, DeclRefs(disk))

\* Descriptors with all four anchors whose lists hold one existing entry.
Populated ==
    {Descriptor(b, r, "one", "one") : b \in {"empty", "one"}, r \in {"empty", "one"}}

\* C4: after one completed run, every added file has exactly one
\* FileReference line in the declaration section, no BuildFile identifier of
\* the run occurs twice in the Sources build phase list, and the identifier
\* belonging to each file occurs there exactly once.
C4_NoDuplicateInsertion ==
    (Finished /\ orig \in Populated) =>
        /\ \A j \in 1..Len(file_references) :
              Cardinality({i \in DeclRefs(disk) :
                              disk[i].path = Rec(file_references[j]).path}) = 1
        /\ \A j \in 1..Len(build_file_refs) :
              Cardinality({i \in PhaseFiles(disk) :
                              disk[i].id = Rec(build_file_refs[j]).id}) = 1

\* C5: a patch step whose anchor is found leaves the region in place, with
\* the text it held before as a proper prefix of the text it holds after.
C5_ExistingContentIsPrefix ==
    [][\A step \in PatchSteps :
          (pc = step /\ StepMatch(step, content).found) =>
              /\ StepMatch(step, content').found
              /\ IsPrefix(StepMatch(step, content).g, StepMatch(step, content').g)
              /\ Len(StepMatch(step, content').g) > Len(StepMatch(step, content).g)]_vars

\* C6: a patch step whose anchor is not found leaves the text unchanged,
\* lets the run go on to the next step and prints a warning for the region.
C6_MissingAnchorWarns ==
    [][\A step \in PatchSteps :
          (pc = step /\ ~StepMatch(step, content).found) =>
              /\ content' = content
              /\ pc' = StepAfter(step)
              /\ Warning(step) \in Range(out')]_vars

\* C7: a run in which an exception was raised prints a trace and exits
\* with a non-zero status; status 0 is kept for a run that completed and
\* printed its summary.
C7_ExitStatus ==
    pc = "exited" =>
        /\ raised => ("traceback" \in Range(out) /\ exitStatus # 0)
        /\ exitStatus = 0 => (~raised /\ "statistics" \in Range(out))

\* C8: when the source root or the resource root does not exist, the run
\* fails and the descriptor is never written.
C8_DiscoveryErrorIsFatal ==
    (~srcDir.exists \/ ~resDir.exists) =>
        /\ writes = 0
        /\ disk = orig
        /\ pc = "exited" => raised

\* The four patch steps applied in order to the text that was read.
Staged(c, files, refs, brefs, wm, wmb) ==
    patch_sources_phase(
        patch_sources_group(
            patch_build_section(patch_ref_section(c, refs), brefs), wm),
        files, brefs, wmb)

\* C9: write_pbxproj is called at most once, only after the read, both
\* scans, the synthesis and the four patch steps ran in that order; a write
\* that succeeds leaves the fully staged text on disk; as long as it has not
\* been called the file is as it was read.
C9_SingleWrite ==
    /\ writes <= 1
    /\ writes = 1 =>
          /\ Len(hist) >= 9
          /\ SubSeq(hist, 1, 9) = <<"read", "scan_swift", "scan_res", "synth", "patch_ref",
                                    "patch_build", "patch_group", "patch_phase", "write">>
    /\ writes = 0 => disk = orig
    /\ (writes = 1 /\ ~raised) =>
          disk = Staged(orig, swift_files, file_references, build_file_refs,
                        wm_uuid, wm_build_uuid)

\* A completed run that changed the file.
C9_Witness == Finished /\ writes = 1 /\ disk # orig /\ Len(swift_files) = 2

RECURSIVE Beneath(_, _, _)
\* Entry e of tree d lies somewhere below the directory with path p.
Beneath(d, e, p) ==
    /\ e.parent # "."
    /\ \/ e.parent = p
       \/ Beneath(d, CHOOSE x \in d.entries : x.path = e.parent, p)

Bundles(d) == {e \in d.entries : e.isDir /\ EndsWith(e.name, ".lproj")}

\* C10: find_all_resource_files returns every .lproj directory exactly once
\* as a folder, nothing that lies below one, every other file with an
\* allow-listed suffix exactly once as a file, and the whole in ascending
\* order.
C10_ResourceDiscovery ==
    (pc = "synth" /\ resDir.exists) =>
        LET r == resource_files
            plain == {e \in resDir.entries :
                         /\ ~e.isDir
                         /\ \E ext \in extensions : EndsWith(e.name, ext)
                         /\ \A b \in Bundles(resDir) : ~Beneath(resDir, e, b.path)}
        IN  /\ \A b \in Bundles(resDir) :
                  Cardinality({i \in DOMAIN r : r[i] = <<b.path, "folder">>}) = 1
            /\ \A e \in plain :
                  Cardinality({i \in DOMAIN r : r[i] = <<e.path, "file">>}) = 1
            /\ \A i \in DOMAIN r : \A b \in Bundles(resDir) :
                  ~Beneath(resDir, CHOOSE e \in resDir.entries : e.path = r[i][1], b.path)
            /\ \A i, j \in DOMAIN r : i < j => Rank(r[i][1]) < Rank(r[j][1])

=============================================================================
